---------------------------- MODULE Spec2Model ----------------------------
(***************************************************************************)
(* Model of create_karaoke_video (src/make_lyrics_video.py): timing        *)
(* reconciliation, syllable -> word assembly, page/line segmentation and   *)
(* the per-word highlight schedule.                                        *)
(*                                                                         *)
(* Strings are sequences of one-character strings.  Times are exact        *)
(* rationals <<num, den>> in lowest terms (den > 0), in seconds.           *)
(* Python indices are kept 0-based; sequences are indexed with +1.         *)
(***************************************************************************)
EXTENDS Integers, Sequences, FiniteSets

VARIABLES pc, syllables, detected, audio, max_words_per_page,
          onset_times, i, pages, current_page, current_word, word_timings,
          word_idx, page_no, clips, err

vars == <<pc, syllables, detected, audio, max_words_per_page,
          onset_times, i, pages, current_page, current_word, word_timings,
          word_idx, page_no, clips, err>>

---------------------------------------------------------------------------
(* Bounds of the model *)
MaxTokens == 3
MaxOnsets == 2
MaxTime == 2
MaxPageWords == 3

(* len(audio) is in milliseconds; the code divides it by 1000 *)
MsPerSecond == 1000

---------------------------------------------------------------------------
(* Exact rational arithmetic *)
RECURSIVE Gcd(_, _)
Gcd(a, b) == IF b = 0 THEN a ELSE Gcd(b, a % b)

Abs(n) == IF n < 0 THEN -n ELSE n

Rat(n, d) ==
    LET g == Gcd(Abs(n), d) IN <<n \div g, d \div g>>

RSub(x, y) == Rat(x[1] * y[2] - y[1] * x[2], x[2] * y[2])
RAdd(x, y) == Rat(x[1] * y[2] + y[1] * x[2], x[2] * y[2])
RMulInt(x, k) == Rat(x[1] * k, x[2])
RDivInt(x, k) == Rat(x[1], x[2] * k)
RLess(x, y) == x[1] * y[2] < y[1] * x[2]
RZero == Rat(0, 1)

---------------------------------------------------------------------------
(* Characters and string helpers *)
Whitespace == {" "}
UpperChars == {"B", "E"}
Hyphen == "-"
OpenParen == "("
NewlineMarker == <<"\n">>
break_punctuation == {",", ".", "!", ")", "?"}

RECURSIVE LStrip(_)
LStrip(s) ==
    IF s # <<>> /\ Head(s) \in Whitespace THEN LStrip(Tail(s)) ELSE s

RECURSIVE RStrip(_)
RStrip(s) ==
    IF s # <<>> /\ s[Len(s)] \in Whitespace
    THEN RStrip(SubSeq(s, 1, Len(s) - 1)) ELSE s

Strip(s) == LStrip(RStrip(s))

EndsWith(s, c) == s # <<>> /\ s[Len(s)] = c

RECURSIVE RStripHyphen(_)
RStripHyphen(s) ==
    IF EndsWith(s, Hyphen) THEN RStripHyphen(SubSeq(s, 1, Len(s) - 1)) ELSE s

RECURSIVE Join(_)
Join(parts) ==
    IF parts = <<>> THEN <<>> ELSE Head(parts) \o Join(Tail(parts))

(* raw lines of the syllables file *)
LinePool ==
    { <<"a">>, <<"B">>, <<"c", ",">>, <<"d", "-">>, <<"E", "-">>,
      <<" ", "(", "f">> }

---------------------------------------------------------------------------
(* detect_peaks: strictly increasing onset times *)
RECURSIVE SortedSeq(_)
SortedSeq(S) ==
    IF S = {} THEN <<>>
    ELSE LET m == CHOOSE x \in S : \A y \in S : x <= y
         IN <<Rat(m, 1)>> \o SortedSeq(S \ {m})

detect_peaks ==
    { SortedSeq(S) : S \in { T \in SUBSET (0 .. MaxTime) : Cardinality(T) <= MaxOnsets } }

AudioSeconds(ms) == RDivInt(Rat(ms, 1), MsPerSecond)

---------------------------------------------------------------------------
(* np.linspace(start, stop, num) for num >= 2, endpoint included *)
Linspace(start, stop, num) ==
    LET step == RDivInt(RSub(stop, start), num - 1)
    IN [j \in 1 .. num |->
          IF j = num THEN stop ELSE RAdd(RMulInt(step, j - 1), start)]

ExtraTimesOpenEnded(last, duration, remaining_syllables) ==
    SubSeq(Linspace(last, duration, remaining_syllables + 2),
           2, remaining_syllables + 1)

(* extra_times = np.linspace(onset_times[-1], len(audio)/1000, remaining + 1)[1:] *)
ExtraTimes(last, duration, remaining_syllables) ==
    Tail(Linspace(last, duration, remaining_syllables + 1))

(* starts_new_line: first character upper-case or an opening parenthesis *)
StartsNewLine(syllable) ==
    /\ Strip(syllable) # <<>>
    /\ \/ Strip(syllable)[1] \in UpperChars
       \/ Strip(syllable)[1] = OpenParen

EmitsNewlineMidWord(syllable, page, word) ==
    StartsNewLine(syllable) /\ page # <<>>

(* if starts_new_line and current_page and current_word == [] *)
EmitsNewline(syllable, page, word) ==
    StartsNewLine(syllable) /\ page # <<>> /\ word = <<>>

WordTimingNextUnconsumed(onsets, k, timings) == onsets[Len(timings) + 1]

(* word_timings.append(onset_times[i]) *)
WordTiming(onsets, k, timings) == onsets[k + 1]

(* any(complete_word.endswith(p) for p in break_punctuation) *)
ShouldBreak(complete_word) ==
    \E p \in break_punctuation : EndsWith(complete_word, p)

(* elif len(current_page) >= max_words_per_page *)
PageFull(page, max_words) == Len(page) >= max_words

(* actual_words = [w for w in page_words if w != "\n"] *)
ActualWords(page_words) == SelectSeq(page_words, LAMBDA w : w # NewlineMarker)

NextWordIdxCountingMarkers(idx, page_words) == idx + Len(page_words)

(* word_idx += len(actual_words) *)
NextWordIdx(idx, page_words) == idx + Len(ActualWords(page_words))

Min(a, b) == IF a < b THEN a ELSE b

(* page_end_time = word_timings[min(word_idx + len(actual_words) - 1,
                                    len(word_timings) - 1)] *)
PageEndTime(timings, idx, page_words) ==
    timings[Min(idx + Len(ActualWords(page_words)) - 1, Len(timings) - 1) + 1]

WordEndAtPageEnd(timings, cwi, page_start_time, page_end_time) ==
    RSub(page_end_time, page_start_time)

WordEndWithinPage(timings, cwi, page_start_time, page_end_time) ==
    IF cwi < Len(timings) - 1
          /\ ~ RLess(page_end_time, timings[cwi + 2])
    THEN RSub(timings[cwi + 2], page_start_time)
    ELSE RSub(page_end_time, page_start_time)

(* word_end of the word with global index cwi *)
WordEnd(timings, cwi, page_start_time, page_end_time) ==
    IF cwi < Len(timings) - 1
    THEN RSub(timings[cwi + 2], page_start_time)
    ELSE RSub(page_end_time, page_start_time)

(* the inner loop over page_words: one clip per word, markers skipped *)
RECURSIVE PageClips(_, _, _, _, _, _, _)
PageClips(page_words, k, word_count, idx, timings, pst, pet) ==
    IF k >= Len(page_words) THEN <<>>
    ELSE IF page_words[k + 1] = NewlineMarker
         THEN PageClips(page_words, k + 1, word_count, idx, timings, pst, pet)
    ELSE IF idx + word_count >= Len(timings) THEN <<>>
    ELSE LET cwi == idx + word_count
             word_start == RSub(timings[cwi + 1], pst)
             word_end == WordEnd(timings, cwi, pst, pet)
         IN <<[highlight |-> k, start |-> word_start, end |-> word_end,
               duration |-> RSub(word_end, word_start)]>>
            \o PageClips(page_words, k + 1, word_count + 1, idx, timings, pst, pet)

---------------------------------------------------------------------------
SeqsUpTo(S, n) == UNION { [1 .. k -> S] : k \in 0 .. n }

Init ==
    /\ pc = "reconcile"
    /\ \E lines \in SeqsUpTo(LinePool, MaxTokens) :
          syllables = [k \in 1 .. Len(lines) |-> Strip(lines[k])]
    /\ detected \in detect_peaks
    /\ \E d \in 1 .. MaxTime :
          /\ detected # <<>> => ~ RLess(Rat(d, 1), detected[Len(detected)])
          /\ audio = d * MsPerSecond
    /\ max_words_per_page \in 1 .. MaxPageWords
    /\ onset_times = detected
    /\ i = 0
    /\ pages = <<>>
    /\ current_page = <<>>
    /\ current_word = <<>>
    /\ word_timings = <<>>
    /\ word_idx = 0
    /\ page_no = 0
    /\ clips = <<>>
    /\ err = "none"

(* lines 117-129: make sure there are enough onsets for all syllables *)
Reconcile ==
    /\ pc = "reconcile"
    /\ IF Len(onset_times) < Len(syllables)
       THEN IF onset_times = <<>>
            THEN (* onset_times[-1] on an empty array *)
                 /\ pc' = "error"
                 /\ err' = "IndexError"
                 /\ UNCHANGED onset_times
            ELSE LET last == onset_times[Len(onset_times)]
                     remaining_syllables == Len(syllables) - Len(onset_times)
                 IN /\ onset_times' =
                          IF remaining_syllables > 0
                          THEN onset_times \o
                               ExtraTimes(last, AudioSeconds(audio), remaining_syllables)
                          ELSE onset_times
                    /\ pc' = "segment"
                    /\ UNCHANGED err
       ELSE /\ pc' = "segment"
            /\ UNCHANGED <<onset_times, err>>
    /\ UNCHANGED <<syllables, detected, audio, max_words_per_page, i, pages,
                   current_page, current_word, word_timings, word_idx,
                   page_no, clips>>

(* lines 140-172: one iteration of the loop over the syllables *)
SegmentSyllable ==
    /\ pc = "segment"
    /\ i < Len(syllables)
    /\ LET syllable == syllables[i + 1]
           page1 == IF EmitsNewline(syllable, current_page, current_word)
                    THEN Append(current_page, NewlineMarker)
                    ELSE current_page
       IN IF EndsWith(syllable, Hyphen)
          THEN /\ current_word' = Append(current_word, RStripHyphen(syllable))
               /\ current_page' = page1
               /\ UNCHANGED <<word_timings, pages>>
          ELSE LET complete_word == Join(Append(current_word, syllable))
                   page2 == Append(page1, complete_word)
               IN /\ word_timings' =
                        Append(word_timings, WordTiming(onset_times, i, word_timings))
                  /\ IF ShouldBreak(complete_word)
                     THEN /\ pages' = Append(pages, page2)
                          /\ current_page' = <<>>
                     ELSE IF PageFull(page2, max_words_per_page)
                     THEN /\ pages' = Append(pages, page2)
                          /\ current_page' = <<>>
                     ELSE /\ pages' = pages
                          /\ current_page' = page2
                  /\ current_word' = <<>>
    /\ i' = i + 1
    /\ UNCHANGED <<pc, syllables, detected, audio, max_words_per_page,
                   onset_times, word_idx, page_no, clips, err>>

(* lines 174-175: add any remaining words, then start the page loop *)
FlushPage ==
    /\ pc = "segment"
    /\ i = Len(syllables)
    /\ pages' = IF current_page # <<>> THEN Append(pages, current_page) ELSE pages
    /\ pc' = "schedule"
    /\ UNCHANGED <<syllables, detected, audio, max_words_per_page, onset_times,
                   i, current_page, current_word, word_timings, word_idx,
                   page_no, clips, err>>

(* lines 182-226: one iteration of the loop over the pages *)
SchedulePage ==
    /\ pc = "schedule"
    /\ page_no < Len(pages)
    /\ LET page_words == pages[page_no + 1]
       IN IF word_idx >= Len(word_timings)
          THEN (* word_timings[word_idx] out of range *)
               /\ pc' = "error"
               /\ err' = "IndexError"
               /\ UNCHANGED <<clips, word_idx, page_no>>
          ELSE LET page_start_time == word_timings[word_idx + 1]
                   page_end_time == PageEndTime(word_timings, word_idx, page_words)
               IN /\ clips' = Append(clips,
                        [word_idx |-> word_idx,
                         page_start_time |-> page_start_time,
                         page_end_time |-> page_end_time,
                         page_clips |-> PageClips(page_words, 0, 0, word_idx,
                                           word_timings, page_start_time,
                                           page_end_time)])
                  /\ word_idx' = NextWordIdx(word_idx, page_words)
                  /\ page_no' = page_no + 1
                  /\ UNCHANGED <<pc, err>>
    /\ UNCHANGED <<syllables, detected, audio, max_words_per_page, onset_times,
                   i, pages, current_page, current_word, word_timings>>

(* lines 228-240: all pages scheduled, the clips are handed to the renderer *)
Finish ==
    /\ pc = "schedule"
    /\ page_no = Len(pages)
    /\ pc' = "done"
    /\ UNCHANGED <<syllables, detected, audio, max_words_per_page, onset_times,
                   i, pages, current_page, current_word, word_timings, word_idx,
                   page_no, clips, err>>

Next ==
    \/ Reconcile
    \/ SegmentSyllable
    \/ FlushPage
    \/ SchedulePage
    \/ Finish

Spec == Init /\ [][Next]_vars

TypeOK ==
    /\ pc \in {"reconcile", "segment", "schedule", "done", "error"}
    /\ err \in {"none", "IndexError"}
    /\ i \in 0 .. Len(syllables)
    /\ page_no \in 0 .. Len(pages)

---------------------------------------------------------------------------
(* Reference definitions used to state the properties *)

(* positions (1-based) of the tokens that close a word *)
IsContinuation(tok) == EndsWith(tok, Hyphen)
EndSet == { p \in 1 .. Len(syllables) : ~ IsContinuation(syllables[p]) }
NumWords == Cardinality(EndSet)
EndPos(k) == CHOOSE p \in EndSet : Cardinality({ q \in EndSet : q < p }) = k - 1
FirstPos(k) == IF k = 1 THEN 1 ELSE EndPos(k - 1) + 1

(* the k-th word: its continuation tokens without the hyphen, then the closing token *)
RECURSIVE RefConcat(_, _)
RefConcat(from, to) ==
    IF from = to THEN syllables[to]
    ELSE SubSeq(syllables[from], 1, Len(syllables[from]) - 1) \o RefConcat(from + 1, to)

RefWord(k) == RefConcat(FirstPos(k), EndPos(k))

(* number of words closed by the first n tokens *)
WordsClosedBy(n) == Cardinality({ p \in EndSet : p <= n })

(* every page built so far, the open one included *)
BuiltPages == IF pc = "segment" /\ current_page # <<>>
              THEN Append(pages, current_page) ELSE pages

WordsOf(page) == SelectSeq(page, LAMBDA w : w # NewlineMarker)
WordsBefore(ps, n) == Len(WordsOf(Join(SubSeq(ps, 1, n - 1))))

Segmented == pc \in {"schedule", "done"}
Duration == AudioSeconds(audio)

---------------------------------------------------------------------------
(* C1: the pages partition the assembled words: the words of all pages, in
   page order and without the line-break markers, are exactly the assembled
   words closed so far, in order; and word_idx is the global index of the
   first word of the page the scheduler is at (and was, for every page
   already scheduled). *)
C1_PagesPartitionWords ==
    /\ WordsOf(Join(BuiltPages)) =
          [k \in 1 .. WordsClosedBy(i) |-> RefWord(k)]
    /\ Segmented => word_idx = WordsBefore(pages, page_no + 1)
    /\ \A n \in 1 .. Len(clips) : clips[n].word_idx = WordsBefore(pages, n)

C1_Witness ==
    /\ pc = "done"
    /\ Len(pages) >= 2
    /\ \E n \in 1 .. Len(pages) : \E j \in 1 .. Len(pages[n]) :
          pages[n][j] = NewlineMarker
    /\ word_idx = NumWords

(* C2: word k is the concatenation of its continuation tokens (hyphen
   stripped) and its closing token, and its start time is the reconciled
   onset at the position of its closing token. *)
C2_WordAssembly ==
    /\ Len(word_timings) = WordsClosedBy(i)
    /\ \A k \in 1 .. Len(word_timings) :
          /\ word_timings[k] = onset_times[EndPos(k)]
          /\ WordsOf(Join(BuiltPages))[k] = RefWord(k)

C2_Witness ==
    /\ pc = "done"
    /\ NumWords >= 2
    /\ FirstPos(1) < EndPos(1)
    /\ word_timings[1] # onset_times[1]
    /\ word_timings[2] = onset_times[EndPos(2)]

(* C3 as stated: with 1 <= N < M the reconciled sequence has M entries, keeps
   the N detected onsets, and the appended entries are strictly increasing,
   evenly spaced by (D - last)/(M - N) and end at D. *)
Shortfall == /\ pc \notin {"reconcile", "error"}
             /\ 1 <= Len(detected)
             /\ Len(detected) < Len(syllables)

EvenlySpaced ==
    LET N == Len(detected)
        M == Len(syllables)
        last == detected[N]
    IN /\ Len(onset_times) = M
       /\ SubSeq(onset_times, 1, N) = detected
       /\ \A j \in 1 .. (M - N) :
             onset_times[N + j] =
                Rat(last[1] * Duration[2] * (M - N)
                       + j * (Duration[1] * last[2] - last[1] * Duration[2]),
                    last[2] * Duration[2] * (M - N))
       /\ onset_times[M] = Duration

AppendedStrictlyIncreasing ==
    \A j \in Len(detected) .. (Len(syllables) - 1) :
        RLess(onset_times[j], onset_times[j + 1])

C3_Original ==
    Shortfall => EvenlySpaced /\ AppendedStrictlyIncreasing

(* C3 amended: as above, but the appended entries are strictly increasing
   only when D exceeds the last detected onset; when D equals it they are
   all equal to D. *)
C3_Reconciliation ==
    Shortfall =>
       /\ EvenlySpaced
       /\ RLess(detected[Len(detected)], Duration) => AppendedStrictlyIncreasing
       /\ ~ RLess(detected[Len(detected)], Duration) =>
             \A j \in Len(detected) .. Len(syllables) :
                onset_times[j] = Duration

C3_Witness ==
    /\ Shortfall
    /\ Len(syllables) - Len(detected) >= 2
    /\ RLess(detected[Len(detected)], Duration)
    /\ onset_times[Len(detected) + 1] # Duration

(* C4 as stated: on every page the last word's highlight ends at the page's
   duration, page_end_time - page_start_time. *)
LastClip(c) == c.page_clips[Len(c.page_clips)]

C5_PositiveIntervals ==
    \A n \in 1 .. Len(clips) : \A j \in 1 .. Len(clips[n].page_clips) :
        RLess(RZero, clips[n].page_clips[j].duration)

(* C6: within a page the highlight intervals of adjacent words are
   contiguous: the end of one is the start of the next. *)
C6_Contiguous ==
    \A n \in 1 .. Len(clips) :
        /\ Len(clips[n].page_clips) = Len(WordsOf(pages[n]))
        /\ \A j \in 1 .. (Len(clips[n].page_clips) - 1) :
              /\ clips[n].page_clips[j].end = clips[n].page_clips[j + 1].start
              /\ clips[n].page_clips[j].highlight
                    < clips[n].page_clips[j + 1].highlight

C6_Witness ==
    /\ pc = "done"
    /\ \E n \in 1 .. Len(clips) :
          /\ Len(clips[n].page_clips) >= 2
          /\ RLess(clips[n].page_clips[1].start, clips[n].page_clips[2].start)
          /\ n < Len(clips)

(* C7: with zero detected onsets the run ends fatally in reconciliation,
   whatever the number of tokens, before any page is built. *)
C7_ZeroOnsetsFatal ==
    (Len(detected) = 0 /\ pc # "reconcile") =>
       (pc = "error" /\ pages = <<>> /\ clips = <<>>)

(* C8: when the token sequence ends on a continuation token the run is
   aborted before any page is emitted: no page reaches the scheduler. *)
UnterminatedWord ==
    Len(syllables) > 0 /\ IsContinuation(syllables[Len(syllables)])

C8_UnterminatedWordFatal ==
    UnterminatedWord => clips = <<>>

(* C9: every page holds at most max_words_per_page words, and every page
   but the last whose final word carries no break punctuation holds exactly
   max_words_per_page words, line-break markers not counted. *)
C9_BackstopExact ==
    Segmented =>
       \A n \in 1 .. Len(pages) :
           /\ Len(WordsOf(pages[n])) <= max_words_per_page
           /\ (n < Len(pages) /\ ~ ShouldBreak(pages[n][Len(pages[n])]))
                 => Len(WordsOf(pages[n])) = max_words_per_page

(* C10: a line-break marker immediately precedes a word exactly when the
   word's first token starts with an upper-case letter or "(" and the word
   is not the first entry of its page; no page starts with a marker and no
   two markers are adjacent. *)
C10_LineBreakMarkers ==
    \A n \in 1 .. Len(BuiltPages) :
        LET page == BuiltPages[n]
        IN /\ page[1] # NewlineMarker
           /\ \A j \in 1 .. (Len(page) - 1) :
                 ~ (page[j] = NewlineMarker /\ page[j + 1] = NewlineMarker)
           /\ \A j \in 1 .. Len(page) :
                 page[j] # NewlineMarker =>
                    LET g == WordsBefore(BuiltPages, n)
                                + Len(WordsOf(SubSeq(page, 1, j)))
                    IN (j > 1 /\ page[j - 1] = NewlineMarker)
                          <=> (j > 1 /\ StartsNewLine(syllables[FirstPos(g)]))

C10_Witness ==
    /\ pc = "done"
    /\ \E n \in 1 .. Len(pages) :
          pages[n] = << <<"E", "B">>, NewlineMarker, <<"B">> >>

=============================================================================
